---- MODULE Spec2Model ----
(***************************************************************************)
(* Price resolution and caching engine of backend/services/pricing.py.     *)
(*                                                                         *)
(* A symbol string is modelled by the tuple of its "."-separated parts:    *)
(* "005930.KS" is <<"005930", "KS">>, so symbol.split('.') is the tuple    *)
(* itself.  A cache key f"{kind}:{symbol}" is the pair <<kind, symbol>>;   *)
(* the fixed keys "usdkrw" and "btc" are <<"usdkrw", <<>>>>, <<"btc",<<>>>>.*)
(* An Optional value is a sequence of length 0 (None) or 1.                *)
(* A provider's answer to one request is a record [kind, price]:           *)
(*   kind "http"   - httpx.HTTPError (transport error, timeout, status)    *)
(*   kind "nodata" - a 200 answer without the expected field / row         *)
(*   kind "ok"     - a payload carrying price                              *)
(***************************************************************************)
EXTENDS Integers, Sequences, FiniteSets, TLC

VARIABLES
    cache,            \* _cache: key -> <<timestamp, value>>
    now,              \* time()
    ttl_map,          \* the TTL table in force: kind -> seconds
    finnhub_api_key,  \* settings.finnhub_api_key is set
    pc,               \* position of the call in progress
    op,               \* the operation in progress
    args,             \* its arguments
    stub,             \* what each provider answers during this call
    trace,            \* adapters / FX resolver invoked by this call, in order
    cache0,           \* _cache when the call started
    ret,              \* what the call returned or raised
    tasks,            \* the coroutines of the asyncio.gather in progress
    batch_prices,     \* get_price_krw_batch: batch_prices / results of the batch fetch
    failed_symbols,   \* get_price_krw_batch: symbols still to try on Stooq
    rate,             \* get_price_krw_batch: rate
    results,          \* get_price_krw_batch: results
    holdings,         \* main.py refresh handlers: the Asset rows loaded (assets)
    _swr_pending      \* _swr_pending: keys with a background refresh in flight

vars == <<cache, now, ttl_map, finnhub_api_key, _swr_pending, pc, op, args, stub, trace, cache0, ret,
          tasks, batch_prices, failed_symbols, rate, results, holdings>>

----------------------------------------------------------------------------
(* Bounds and input universes *)

MaxPrice == 1
MaxBatch == 2

Prices == 1..MaxPrice

AAPL == <<"AAPL">>
MSFT == <<"MSFT">>
KR == <<"005930">>
KR_KS == <<"005930", "KS">>
BTC == <<"BTC">>
btc == <<"btc">>
ETH == <<"ETH">>
GOLD == <<"GOLD">>

NoSym == <<>>

Fail(k) == [kind |-> k, price |-> 0]
Quote(p) == [kind |-> "ok", price |-> p]

\* answers of a provider in the single-operation specification
Resp == {Fail("http"), Fail("nodata")} \cup {Quote(p) : p \in Prices}

\* (symbol, asset_type) pairs handed to get_price_krw
SingleAssets ==
    { <<AAPL, "stock">>, <<MSFT, "stock">>, <<KR, "kr_stock">>, <<KR_KS, "kr_stock">>,
      <<BTC, "crypto">>, <<btc, "crypto">>, <<ETH, "crypto">>, <<GOLD, "cash">> }

----------------------------------------------------------------------------
(* Helpers: dictionaries, Optional, results of a call *)

EmptyMap == [k \in {} |-> 0]

Put(f, k, v) == [x \in (DOMAIN f) \cup {k} |-> IF x = k THEN v ELSE f[x]]

None == <<>>
Some(v) == <<v>>

\* the outcome of a function call: a value or an exception, the cache it
\* leaves, and the invocations it made
Ok(v, c, calls) == [ok |-> TRUE, val |-> <<v>>, exc |-> "", cache |-> c, calls |-> calls]
Raise(e, c, calls) == [ok |-> FALSE, val |-> <<>>, exc |-> e, cache |-> c, calls |-> calls]

PriceResult(price_krw, source, price_usd) ==
    [price_krw |-> price_krw, source |-> source, price_usd |-> price_usd]

Reply(st, provider, symbol) == st[<<provider, symbol>>]

----------------------------------------------------------------------------
(* Cache layer *)

_DEFAULT_CACHE_TTL == 0

_CACHE_TTL_MAP == [usdkrw |-> 0, stock |-> 0, kr_stock |-> 0, btc |-> 0]

_get_cache_ttl(key) ==
    IF key[1] \in DOMAIN ttl_map THEN ttl_map[key[1]] ELSE _DEFAULT_CACHE_TTL

\* mutant: an entry whose age equals the TTL still counts as fresh
_get_cached_Inclusive(c, t, key, allow_stale) ==
    IF key \notin DOMAIN c THEN None
    ELSE IF allow_stale \/ (t - c[key][1]) <= _get_cache_ttl(key) THEN Some(c[key][2])
    ELSE None

_get_cached(c, t, key, allow_stale) ==
    IF key \notin DOMAIN c THEN None
    ELSE IF allow_stale \/ (t - c[key][1]) < _get_cache_ttl(key) THEN Some(c[key][2])
    ELSE None

\* mutant: an existing entry is kept, the first writer wins
_set_cache_KeepFirst(c, t, key, value) ==
    IF key \in DOMAIN c THEN c ELSE Put(c, key, <<t, value>>)

_set_cache(c, t, key, value) == Put(c, key, <<t, value>>)

----------------------------------------------------------------------------
(* FX resolver *)

FxEntry == <<"fetch_usd_krw_rate", NoSym>>

\* mutant: the rate of the secondary provider is returned without being stored
fetch_usd_krw_rate_FallbackNotStored(st, c, t) ==
    LET cached == _get_cached(c, t, <<"usdkrw", NoSym>>, FALSE)
        r1 == Reply(st, "er-api", NoSym)
        r2 == Reply(st, "frankfurter", NoSym)
        call1 == <<FxEntry, <<"er-api", NoSym>>>>
        call2 == call1 \o <<<<"frankfurter", NoSym>>>>
    IN  IF cached # None THEN Ok(cached[1], c, <<FxEntry>>)
        ELSE IF r1.kind = "ok"
             THEN Ok(r1.price, _set_cache(c, t, <<"usdkrw", NoSym>>, r1.price), call1)
        ELSE IF r2.kind = "ok" THEN Ok(r2.price, c, call2)
        ELSE IF r2.kind = "http" THEN Raise("HTTPError", c, call2)
        ELSE Raise("ValueError", c, call2)

fetch_usd_krw_rate(st, c, t) ==
    LET cached == _get_cached(c, t, <<"usdkrw", NoSym>>, FALSE)
        r1 == Reply(st, "er-api", NoSym)
        r2 == Reply(st, "frankfurter", NoSym)
        call1 == <<FxEntry, <<"er-api", NoSym>>>>
        call2 == call1 \o <<<<"frankfurter", NoSym>>>>
    IN  IF cached # None THEN Ok(cached[1], c, <<FxEntry>>)
        ELSE IF r1.kind = "ok"
             THEN Ok(r1.price, _set_cache(c, t, <<"usdkrw", NoSym>>, r1.price), call1)
        ELSE IF r2.kind = "ok"
             THEN Ok(r2.price, _set_cache(c, t, <<"usdkrw", NoSym>>, r2.price), call2)
        ELSE IF r2.kind = "http" THEN Raise("HTTPError", c, call2)
        ELSE Raise("ValueError", c, call2)

----------------------------------------------------------------------------
(* Provider adapters: [ok, price, exc] *)

Got(p) == [ok |-> TRUE, price |-> p, exc |-> ""]
Err(e) == [ok |-> FALSE, price |-> 0, exc |-> e]

\* failures raised by client.get / raise_for_status (httpx.HTTPError): a status
\* that is not a success (429 among them), a timeout, a network error
Transport == {"http", "429", "timeout", "network"}

_fetch_from_finnhub(symbol, st, key) ==
    LET r == Reply(st, "finnhub", symbol)
    IN  IF ~key THEN Err("ValueError")
        ELSE IF r.kind \in Transport THEN Err("HTTPError")
        ELSE IF r.kind = "malformed" THEN Err("AttributeError")
        ELSE IF r.kind = "nodata" \/ r.price = 0 THEN Err("ValueError")
        ELSE Got(r.price)

_fetch_from_yahoo(symbol, st) ==
    LET r == Reply(st, "yahoo", symbol)
    IN  IF r.kind \in Transport THEN Err("HTTPError")
        ELSE IF r.kind = "malformed" THEN Err("AttributeError")
        ELSE IF r.kind = "nodata" THEN Err("ValueError")
        ELSE Got(r.price)

_fetch_from_stooq(symbol, st) ==
    LET r == Reply(st, "stooq", symbol)
    IN  IF r.kind \in Transport THEN Err("HTTPError")
        ELSE IF r.kind = "malformed" THEN Err("AttributeError")
        ELSE IF r.kind = "nodata" THEN Err("ValueError")
        ELSE Got(r.price)

----------------------------------------------------------------------------
(* Single foreign-equity chain *)

\* mutant: Stooq consulted before Yahoo
fetch_stock_usd_price_StooqFirst(symbol, st, c, t, key) ==
    LET k == <<"stock", symbol>>
        f == _fetch_from_finnhub(symbol, st, key)
        y == _fetch_from_yahoo(symbol, st)
        s == _fetch_from_stooq(symbol, st)
        cf == IF key THEN <<<<"finnhub", symbol>>>> ELSE <<>>
        cs == cf \o <<<<"stooq", symbol>>>>
        cy == cs \o <<<<"yahoo", symbol>>>>
    IN  IF key /\ f.ok THEN Ok(<<f.price, "finnhub">>, _set_cache(c, t, k, f.price), cf)
        ELSE IF s.ok THEN Ok(<<s.price, "stooq">>, _set_cache(c, t, k, s.price), cs)
        ELSE IF y.ok THEN Ok(<<y.price, "yahoo">>, _set_cache(c, t, k, y.price), cy)
        ELSE Raise("ValueError", c, cy)

\* mutant: only "no data" is caught, a transport failure of Finnhub leaves the chain
fetch_stock_usd_price_AbortOnTransport(symbol, st, c, t, key) ==
    LET k == <<"stock", symbol>>
        f == _fetch_from_finnhub(symbol, st, key)
        y == _fetch_from_yahoo(symbol, st)
        s == _fetch_from_stooq(symbol, st)
        cf == IF key THEN <<<<"finnhub", symbol>>>> ELSE <<>>
        cy == cf \o <<<<"yahoo", symbol>>>>
        cs == cy \o <<<<"stooq", symbol>>>>
    IN  IF key /\ f.ok THEN Ok(<<f.price, "finnhub">>, _set_cache(c, t, k, f.price), cf)
        ELSE IF key /\ f.exc = "HTTPError" THEN Raise("HTTPError", c, cf)
        ELSE IF y.ok THEN Ok(<<y.price, "yahoo">>, _set_cache(c, t, k, y.price), cy)
        ELSE IF s.ok THEN Ok(<<s.price, "stooq">>, _set_cache(c, t, k, s.price), cs)
        ELSE Raise("ValueError", c, cs)

fetch_stock_usd_price(symbol, st, c, t, key) ==
    LET k == <<"stock", symbol>>
        f == _fetch_from_finnhub(symbol, st, key)
        y == _fetch_from_yahoo(symbol, st)
        s == _fetch_from_stooq(symbol, st)
        cf == IF key THEN <<<<"finnhub", symbol>>>> ELSE <<>>
        cy == cf \o <<<<"yahoo", symbol>>>>
        cs == cy \o <<<<"stooq", symbol>>>>
    IN  IF key /\ f.ok THEN Ok(<<f.price, "finnhub">>, _set_cache(c, t, k, f.price), cf)
        ELSE IF y.ok THEN Ok(<<y.price, "yahoo">>, _set_cache(c, t, k, y.price), cy)
        ELSE IF s.ok THEN Ok(<<s.price, "stooq">>, _set_cache(c, t, k, s.price), cs)
        ELSE Raise("ValueError", c, cs)

----------------------------------------------------------------------------
(* Crypto and domestic equity *)

fetch_btc_krw_price(st, c, t) ==
    LET cached == _get_cached(c, t, <<"btc", NoSym>>, FALSE)
        r == Reply(st, "upbit", NoSym)
        call == <<<<"upbit", NoSym>>>>
    IN  IF cached # None THEN Ok(cached[1], c, <<>>)
        ELSE IF r.kind = "http" THEN Raise("HTTPError", c, call)
        ELSE IF r.kind = "nodata" THEN Raise("LookupError", c, call)
        ELSE Ok(r.price, _set_cache(c, t, <<"btc", NoSym>>, r.price), call)

\* symbol.split('.')[0]
CleanSymbol(symbol) == <<symbol[1]>>

fetch_kr_stock_krw_price(symbol, st, c, t) ==
    LET clean_symbol == CleanSymbol(symbol)
        k == <<"kr_stock", clean_symbol>>
        cached == _get_cached(c, t, k, FALSE)
        r == Reply(st, "pykrx", clean_symbol)
        call == <<<<"pykrx", clean_symbol>>>>
    IN  IF cached # None THEN Ok(cached[1], c, <<>>)
        ELSE IF r.kind = "http" THEN Raise("Exception", c, call)
        ELSE IF r.kind = "nodata" THEN Raise("ValueError", c, call)
        ELSE Ok(r.price, _set_cache(c, t, k, r.price), call)

UpperStr(s) == IF s = "btc" THEN "BTC" ELSE s
Upper(symbol) == [i \in DOMAIN symbol |-> UpperStr(symbol[i])]

----------------------------------------------------------------------------
(* Single resolution *)

get_price_krw_stock(symbol, st, c, t, key) ==
    LET q == fetch_stock_usd_price(symbol, st, c, t, key)
        fx == fetch_usd_krw_rate(st, q.cache, t)
        after == IF q.ok THEN fx.cache ELSE q.cache
        calls == IF q.ok THEN q.calls \o fx.calls ELSE q.calls
        cached == _get_cached(after, t, <<"stock", symbol>>, TRUE)
        cached_rate == _get_cached(after, t, <<"usdkrw", NoSym>>, TRUE)
    IN  IF q.ok /\ fx.ok
        THEN Ok(PriceResult(q.val[1][1] * fx.val[1], q.val[1][2], Some(q.val[1][1])),
                after, calls)
        ELSE IF cached # None /\ cached_rate # None
        THEN Ok(PriceResult(cached[1] * cached_rate[1], "cache", Some(cached[1])),
                after, calls)
        ELSE Raise("RuntimeError", after, calls)

get_price_krw_kr_stock(symbol, st, c, t) ==
    LET q == fetch_kr_stock_krw_price(symbol, st, c, t)
        cached == _get_cached(q.cache, t, <<"kr_stock", symbol>>, TRUE)
    IN  IF q.ok THEN Ok(PriceResult(q.val[1], "pykrx", None), q.cache, q.calls)
        ELSE IF cached # None THEN Ok(PriceResult(cached[1], "cache", None), q.cache, q.calls)
        ELSE q

get_price_krw_crypto(st, c, t) ==
    LET q == fetch_btc_krw_price(st, c, t)
        cached == _get_cached(q.cache, t, <<"btc", NoSym>>, TRUE)
    IN  IF q.ok THEN Ok(PriceResult(q.val[1], "upbit", None), q.cache, q.calls)
        ELSE IF q.exc \notin {"HTTPError", "ValueError"} THEN q
        ELSE IF cached # None THEN Ok(PriceResult(cached[1], "cache", None), q.cache, q.calls)
        ELSE q

get_price_krw(symbol, asset_type, st, c, t, key) ==
    IF asset_type = "stock" THEN get_price_krw_stock(symbol, st, c, t, key)
    ELSE IF asset_type = "kr_stock" THEN get_price_krw_kr_stock(symbol, st, c, t)
    ELSE IF asset_type = "crypto" /\ Upper(symbol) = BTC THEN get_price_krw_crypto(st, c, t)
    ELSE Raise("ValueError", c, <<>>)

----------------------------------------------------------------------------
(* What a call may ask of its providers *)

\* the (provider, symbol) pairs a single resolution can consult
Needed(symbol, asset_type) ==
    IF asset_type = "stock"
    THEN {<<"finnhub", symbol>>, <<"yahoo", symbol>>, <<"stooq", symbol>>,
          <<"er-api", NoSym>>, <<"frankfurter", NoSym>>}
    ELSE IF asset_type = "kr_stock" THEN {<<"pykrx", CleanSymbol(symbol)>>}
    ELSE IF asset_type = "crypto" /\ Upper(symbol) = BTC THEN {<<"upbit", NoSym>>}
    ELSE {}

Range(seq) == {seq[i] : i \in DOMAIN seq}

\* a stub assignment names an answer only for the providers the call reached
Canonical(st, calls) == \A k \in DOMAIN st : k \in Range(calls) \/ st[k] = Fail("http")

Restrict(st, calls) == [k \in (DOMAIN st) \cap Range(calls) |-> st[k]]

----------------------------------------------------------------------------
(* State machine *)

Init ==
    /\ cache = EmptyMap
    /\ now = 0
    /\ ttl_map = _CACHE_TTL_MAP
    /\ finnhub_api_key \in BOOLEAN
    /\ pc = "idle"
    /\ op = ""
    /\ args = <<>>
    /\ stub = EmptyMap
    /\ trace = <<>>
    /\ cache0 = EmptyMap
    /\ ret = [ok |-> TRUE, exc |-> "", val |-> <<>>]
    /\ tasks = <<>>
    /\ batch_prices = EmptyMap
    /\ failed_symbols = {}
    /\ rate = None
    /\ results = EmptyMap
    /\ holdings = <<>>
    /\ _swr_pending = {}

BatchLocalsUnchanged == UNCHANGED <<tasks, batch_prices, failed_symbols, rate, results, holdings>>

\* a call that runs without interleaving: its outcome out under stubs st
Finish(name, a, st, out) ==
    /\ op' = name
    /\ args' = a
    /\ stub' = Restrict(st, out.calls)
    /\ trace' = out.calls
    /\ cache0' = cache
    /\ cache' = out.cache
    /\ ret' = [ok |-> out.ok, exc |-> out.exc, val |-> out.val]
    /\ pc' = IF out.ok THEN "done" ELSE "raised"
    /\ UNCHANGED <<now, ttl_map, finnhub_api_key, _swr_pending>>
    /\ BatchLocalsUnchanged

\* fetch_stock_usd_price(client, symbol) with the providers answering from R
FetchStockUsdPriceOver(symbols, R) ==
    /\ pc = "idle"
    /\ \E symbol \in symbols :
       \E st \in [{<<"finnhub", symbol>>, <<"yahoo", symbol>>, <<"stooq", symbol>>} -> R] :
          LET out == fetch_stock_usd_price(symbol, st, cache, now, finnhub_api_key)
          IN  /\ Canonical(st, out.calls)
              /\ Finish("fetch_stock_usd_price", <<symbol>>, st, out)

CallFetchStockUsdPrice == FetchStockUsdPriceOver({AAPL, MSFT}, Resp)

CallFetchUsdKrwRate ==
    /\ pc = "idle"
    /\ \E st \in [{<<"er-api", NoSym>>, <<"frankfurter", NoSym>>} -> Resp] :
          LET out == fetch_usd_krw_rate(st, cache, now)
          IN  /\ Canonical(st, out.calls)
              /\ Finish("fetch_usd_krw_rate", <<>>, st, out)

\* the FX providers answer from F, every other provider from R
AnswersTo(k, R, F) == IF k[1] \in {"er-api", "frankfurter"} THEN F ELSE R

\* get_price_krw(symbol, asset_type) with the providers answering from R and F
GetPriceKrwOver(assets, R, F) ==
    /\ pc = "idle"
    /\ \E a \in assets :
       \E st \in {f \in [Needed(a[1], a[2]) -> R \cup F] :
                     \A k \in DOMAIN f : f[k] \in AnswersTo(k, R, F)} :
          LET out == get_price_krw(a[1], a[2], st, cache, now, finnhub_api_key)
          IN  /\ Canonical(st, out.calls)
              /\ Finish("get_price_krw", a, st, out)

CallGetPriceKrw == GetPriceKrwOver(SingleAssets, Resp, Resp)

\* the caller takes the outcome; the next call starts from the cache left behind
Return ==
    /\ pc \in {"done", "raised"}
    /\ pc' = "idle"
    /\ op' = ""
    /\ args' = <<>>
    /\ stub' = EmptyMap
    /\ trace' = <<>>
    /\ cache0' = EmptyMap
    /\ ret' = [ok |-> TRUE, exc |-> "", val |-> <<>>]
    /\ tasks' = <<>>
    /\ batch_prices' = EmptyMap
    /\ failed_symbols' = {}
    /\ rate' = None
    /\ results' = EmptyMap
    /\ holdings' = <<>>
    /\ UNCHANGED <<cache, now, ttl_map, finnhub_api_key, _swr_pending>>

Next ==
    \/ CallFetchStockUsdPrice
    \/ CallFetchUsdKrwRate
    \/ CallGetPriceKrw
    \/ Return

Spec == Init /\ [][Next]_vars

----------------------------------------------------------------------------
(* Batch resolution: get_price_krw_batch and the batch fetchers.           *)
(* Every await is a step.  The coroutines of an asyncio.gather finish in   *)
(* any order; a coroutine's cache accesses follow its last await, so they  *)
(* happen in the step that completes it (every TTL is 0, so the read that  *)
(* precedes the await finds nothing fresh).                                *)

\* the batch specification stubs each provider to fail or to answer this
BatchPrices == {1}
BatchRates == {3}
BatchResp == {Fail("http")} \cup {Quote(p) : p \in BatchPrices}
BatchFxResp == {Fail("http")} \cup {Quote(r) : r \in BatchRates}

BatchAssets == { <<AAPL, "stock">>, <<MSFT, "stock">>, <<KR_KS, "kr_stock">>, <<BTC, "crypto">> }

BatchInputs == UNION { [1..n -> BatchAssets] : n \in 0..MaxBatch }

IsStock(a) == a[2] = "stock"
IsOther(a) == a[2] # "stock"

\* for symbol, asset_type in assets: us_stock_symbols.append / other_assets.append
us_stock_symbols(assets) ==
    LET sel == SelectSeq(assets, IsStock) IN [i \in 1..Len(sel) |-> sel[i][1]]

other_assets(assets) == SelectSeq(assets, IsOther)

Pending == [state |-> "pending", val |-> <<>>]
Done(v) == [state |-> "done", val |-> v]

\* mutant: the gather resumes with the first coroutine that finishes
GatherFirstCompleted(ts) == ts = <<>> \/ \E i \in DOMAIN ts : ts[i].state = "done"

\* await asyncio.gather(*tasks) resumes when every coroutine has finished
GatherDone(ts) == \A i \in DOMAIN ts : ts[i].state = "done"

InFlight == {i \in DOMAIN tasks : tasks[i].state = "pending"}

\* mutant: the Yahoo request names every symbol, priced by Finnhub or not
RECURSIVE MissingFrom_IgnoreResults(_, _, _)
MissingFrom_IgnoreResults(seq, res, seen) ==
    IF seq = <<>> THEN <<>>
    ELSE IF Head(seq) \in seen
         THEN MissingFrom_IgnoreResults(Tail(seq), res, seen)
         ELSE <<Head(seq)>> \o MissingFrom_IgnoreResults(Tail(seq), res, seen \cup {Head(seq)})

\* the symbols of seq that are not keys of res, each once, in order of first occurrence
RECURSIVE MissingFrom(_, _, _)
MissingFrom(seq, res, seen) ==
    IF seq = <<>> THEN <<>>
    ELSE IF Head(seq) \in seen \/ Head(seq) \in DOMAIN res
         THEN MissingFrom(Tail(seq), res, seen)
         ELSE <<Head(seq)>> \o MissingFrom(Tail(seq), res, seen \cup {Head(seq)})

\* one Yahoo v7 request naming these symbols: logged once per symbol named
YahooRequest(symbols) == [i \in DOMAIN symbols |-> <<"yahoo_batch", symbols[i]>>]

\* for symbol, price in responses: results[symbol] = (price, "finnhub"); _set_cache(...)
RECURSIVE FinnhubCollect(_, _, _, _, _, _)
FinnhubCollect(symbols, ts, i, res, c, t) ==
    IF i > Len(symbols) THEN [results |-> res, cache |-> c]
    ELSE IF ts[i].val # None
         THEN FinnhubCollect(symbols, ts, i + 1,
                             Put(res, symbols[i], <<ts[i].val[1], "finnhub">>),
                             _set_cache(c, t, <<"stock", symbols[i]>>, ts[i].val[1]), t)
         ELSE FinnhubCollect(symbols, ts, i + 1, res, c, t)

\* for quote in quotes: results[symbol] = (price, "yahoo"); _set_cache(...)
RECURSIVE YahooCollect(_, _, _, _, _)
YahooCollect(symbols, st, res, c, t) ==
    IF symbols = <<>> THEN [results |-> res, cache |-> c]
    ELSE LET s == Head(symbols)
             r == Reply(st, "yahoo", s)
         IN  IF r.kind = "ok"
             THEN YahooCollect(Tail(symbols), st, Put(res, s, <<r.price, "yahoo">>),
                               _set_cache(c, t, <<"stock", s>>, r.price), t)
             ELSE YahooCollect(Tail(symbols), st, res, c, t)

\* the answer of the Yahoo v7 endpoint that carries a quote list
Listing == [kind |-> "ok", price |-> 0]

\* quotes = quote_response.get("result", []): the symbols the response lists,
\* which are Yahoo's to choose
QuoteSymbols == <<AAPL, MSFT>>
Quotes(st) == SelectSeq(QuoteSymbols, LAMBDA s : <<"yahoo", s>> \in DOMAIN st)

\* _fetch_stocks_from_yahoo_batch: the request fails as a whole, or the quotes
\* of the response are stored, each under the symbol the quote names
_fetch_stocks_from_yahoo_batch(symbols, st, c, t) ==
    IF symbols = <<>> THEN [results |-> EmptyMap, cache |-> c]
    ELSE IF Reply(st, "yahoo_batch", NoSym).kind # "ok" THEN [results |-> EmptyMap, cache |-> c]
    ELSE YahooCollect(Quotes(st), st, EmptyMap, c, t)

\* results.update(other)
Update(res, other) ==
    [k \in (DOMAIN res) \cup (DOMAIN other) |-> IF k \in DOMAIN other THEN other[k] ELSE res[k]]

\* mutant: the USD price reported as the KRW price
BatchResults_Unconverted(prices, r) ==
    [s \in DOMAIN prices |-> PriceResult(prices[s][1], prices[s][2], Some(prices[s][1]))]

\* for symbol, (usd_price, source) in batch_prices.items(): results[symbol] = PriceResult(...)
BatchResults(prices, r) ==
    [s \in DOMAIN prices |-> PriceResult(prices[s][1] * r, prices[s][2], Some(prices[s][1]))]

\* mutant: the Stooq fallback without its try/except
stooq_fallback_Unguarded(symbol, st, c, t, r, res) ==
    LET q == _fetch_from_stooq(symbol, st)
        call == <<<<"stooq", symbol>>>>
    IN  IF q.ok
        THEN Ok(Put(res, symbol, PriceResult(q.price * r, "stooq", Some(q.price))),
                _set_cache(c, t, <<"stock", symbol>>, q.price), call)
        ELSE Raise(q.exc, c, call)

\* mutant: the rate resolved again for every symbol of the fallback loop
stooq_fallback_RateInLoop(symbol, st, c, t, r, res) ==
    LET q == _fetch_from_stooq(symbol, st)
        call == <<FxEntry, <<"stooq", symbol>>>>
    IN  IF q.ok
        THEN Ok(Put(res, symbol, PriceResult(q.price * r, "stooq", Some(q.price))),
                _set_cache(c, t, <<"stock", symbol>>, q.price), call)
        ELSE Ok(res, c, call)

\* mutant: the Stooq fallback of the batch returns its price without storing it
stooq_fallback_NotStored(symbol, st, c, t, r, res) ==
    LET q == _fetch_from_stooq(symbol, st)
        call == <<<<"stooq", symbol>>>>
    IN  IF q.ok
        THEN Ok(Put(res, symbol, PriceResult(q.price * r, "stooq", Some(q.price))), c, call)
        ELSE Ok(res, c, call)

\* one iteration of "for symbol in failed_symbols": the Stooq fallback
stooq_fallback(symbol, st, c, t, r, res) ==
    LET q == _fetch_from_stooq(symbol, st)
        call == <<<<"stooq", symbol>>>>
    IN  IF q.ok
        THEN Ok(Put(res, symbol, PriceResult(q.price * r, "stooq", Some(q.price))),
                _set_cache(c, t, <<"stock", symbol>>, q.price), call)
        ELSE Ok(res, c, call)

\* fetch_single of get_price_krw_batch: (symbol, result) or (symbol, None)
fetch_single(symbol, asset_type, st, c, t, key) ==
    LET q == get_price_krw(symbol, asset_type, st, c, t, key)
    IN  IF q.ok THEN Ok(Some(q.val[1]), q.cache, q.calls) ELSE Ok(None, q.cache, q.calls)

\* mutant: a failed symbol keeps a slot holding its failure
RECURSIVE CollectOthers_KeepFailed(_, _, _, _)
CollectOthers_KeepFailed(others, ts, i, res) ==
    IF i > Len(others) THEN res
    ELSE IF ts[i].val # None
         THEN CollectOthers_KeepFailed(others, ts, i + 1, Put(res, others[i][1], ts[i].val[1]))
         ELSE CollectOthers_KeepFailed(others, ts, i + 1,
                                       Put(res, others[i][1], [failed |-> "Price fetch failed"]))

\* for symbol, result in other_results: if result is not None: results[symbol] = result
RECURSIVE CollectOthers(_, _, _, _)
CollectOthers(others, ts, i, res) ==
    IF i > Len(others) THEN res
    ELSE IF ts[i].val # None
         THEN CollectOthers(others, ts, i + 1, Put(res, others[i][1], ts[i].val[1]))
         ELSE CollectOthers(others, ts, i + 1, res)

\* the answers a call may still receive for key k: the one already given, or any
Choices(k, R) == IF k \in DOMAIN stub THEN {stub[k]} ELSE R

Agrees(st) == \A k \in (DOMAIN st) \cap (DOMAIN stub) : st[k] = stub[k]

BatchFrame == UNCHANGED <<now, ttl_map, finnhub_api_key, _swr_pending, op, args, cache0, holdings>>

\* the request for the symbols Finnhub did not price, or straight to the rate
AfterFinnhub(symbols, res) ==
    LET failed == MissingFrom(symbols, res, {})
    IN  IF failed # <<>>
        THEN /\ pc' = "yahoo"
             /\ trace' = trace \o YahooRequest(failed)
        ELSE /\ pc' = "fx"
             /\ trace' = trace

\* get_price_krw_batch(assets) is entered on behalf of the operation name
BatchBegin(name, assets) ==
    LET symbols == us_stock_symbols(assets)
    IN  /\ op' = name
        /\ args' = assets
        /\ cache0' = cache
        /\ IF symbols # <<>>
           THEN IF finnhub_api_key
                THEN /\ pc' = "finnhub"
                     /\ tasks' = [i \in 1..Len(symbols) |-> Pending]
                     /\ trace' = [i \in 1..Len(symbols) |-> <<"finnhub", symbols[i]>>]
                ELSE /\ pc' = "yahoo"
                     /\ tasks' = <<>>
                     /\ trace' = YahooRequest(MissingFrom(symbols, EmptyMap, {}))
           ELSE /\ pc' = "others"
                /\ tasks' = [i \in 1..Len(other_assets(assets)) |-> Pending]
                /\ trace' = <<>>
        /\ UNCHANGED <<cache, now, ttl_map, finnhub_api_key, _swr_pending, stub, ret, batch_prices,
                       failed_symbols, rate, results>>

BatchStart ==
    /\ pc = "idle"
    /\ \E assets \in BatchInputs : BatchBegin("get_price_krw_batch", assets)
    /\ UNCHANGED holdings

\* one coroutine of _fetch_stocks_from_finnhub_batch gets its answer
FinnhubTaskDone ==
    /\ pc = "finnhub"
    /\ \E i \in InFlight :
         LET symbol == us_stock_symbols(args)[i]
             k == <<"finnhub", symbol>>
         IN  \E r \in Choices(k, BatchResp) :
               LET st == Put(stub, k, r)
                   q == _fetch_from_finnhub(symbol, st, finnhub_api_key)
               IN  /\ stub' = st
                   /\ tasks' = [tasks EXCEPT ![i] = Done(IF q.ok THEN Some(q.price) ELSE None)]
    /\ BatchFrame
    /\ UNCHANGED <<cache, pc, trace, ret, batch_prices, failed_symbols, rate, results>>

\* the gather of _fetch_stocks_from_finnhub_batch resumes
FinnhubJoin ==
    /\ pc = "finnhub"
    /\ GatherDone(tasks)
    /\ LET symbols == us_stock_symbols(args)
           got == FinnhubCollect(symbols, tasks, 1, EmptyMap, cache, now)
       IN  /\ batch_prices' = got.results
           /\ cache' = got.cache
           /\ AfterFinnhub(symbols, got.results)
    /\ BatchFrame
    /\ UNCHANGED <<stub, ret, tasks, failed_symbols, rate, results>>

\* the Yahoo v7 request answers: its quotes name the symbols asked for and
\* possibly some of others
YahooAnswers(others) ==
    /\ pc = "yahoo"
    /\ LET failed == MissingFrom(us_stock_symbols(args), batch_prices, {})
       IN  \E up \in {Fail("http"), Listing} :
           \E quotes \in [{<<"yahoo", s>> : s \in Range(failed) \cup others} -> BatchResp] :
             LET st == Update(Put(stub, <<"yahoo_batch", NoSym>>, up),
                              IF up.kind = "ok" THEN quotes ELSE EmptyMap)
                 got == _fetch_stocks_from_yahoo_batch(failed, st, cache, now)
             IN  /\ up.kind # "ok" => \A k \in DOMAIN quotes : quotes[k] = Fail("http")
                 /\ stub' = st
                 /\ batch_prices' = Update(batch_prices, got.results)
                 /\ cache' = got.cache
    /\ pc' = "fx"
    /\ BatchFrame
    /\ UNCHANGED <<trace, ret, tasks, failed_symbols, rate, results>>

\* the Yahoo v7 request answers for the symbols asked for
YahooDone == YahooAnswers({})

\* rate = await fetch_usd_krw_rate(client), then the results of the batch fetch
FxStep ==
    /\ pc = "fx"
    /\ \E st \in [{<<"er-api", NoSym>>, <<"frankfurter", NoSym>>} -> BatchFxResp] :
         LET out == fetch_usd_krw_rate(st, cache, now)
             failed == Range(us_stock_symbols(args)) \ DOMAIN batch_prices
         IN  /\ Canonical(st, out.calls)
             /\ stub' = Update(stub, Restrict(st, out.calls))
             /\ trace' = trace \o out.calls
             /\ cache' = out.cache
             /\ IF out.ok
                THEN /\ rate' = Some(out.val[1])
                     /\ results' = BatchResults(batch_prices, out.val[1])
                     /\ failed_symbols' = failed
                     /\ ret' = ret
                     /\ IF failed # {}
                        THEN /\ pc' = "stooq"
                             /\ tasks' = tasks
                        ELSE /\ pc' = "others"
                             /\ tasks' = [i \in 1..Len(other_assets(args)) |-> Pending]
                ELSE /\ pc' = "raised"
                     /\ ret' = [ok |-> FALSE, exc |-> out.exc, val |-> <<>>]
                     /\ UNCHANGED <<rate, results, failed_symbols, tasks>>
    /\ BatchFrame
    /\ UNCHANGED <<batch_prices>>

\* one iteration of the Stooq fallback loop (a set is iterated in no fixed order)
StooqStep ==
    /\ pc = "stooq"
    /\ \E symbol \in failed_symbols :
       \E r \in Choices(<<"stooq", symbol>>, BatchResp) :
         LET st == Put(stub, <<"stooq", symbol>>, r)
             out == stooq_fallback(symbol, st, cache, now, rate[1], results)
         IN  /\ stub' = st
             /\ trace' = trace \o out.calls
             /\ cache' = out.cache
             /\ IF out.ok
                THEN /\ results' = out.val[1]
                     /\ failed_symbols' = failed_symbols \ {symbol}
                     /\ ret' = ret
                     /\ IF failed_symbols \ {symbol} = {}
                        THEN /\ pc' = "others"
                             /\ tasks' = [i \in 1..Len(other_assets(args)) |-> Pending]
                        ELSE /\ pc' = "stooq"
                             /\ tasks' = tasks
                ELSE /\ pc' = "raised"
                     /\ ret' = [ok |-> FALSE, exc |-> out.exc, val |-> <<>>]
                     /\ UNCHANGED <<results, failed_symbols, tasks>>
    /\ BatchFrame
    /\ UNCHANGED <<batch_prices, rate>>

\* coroutine i of the second gather ends with the outcome out under the answers st
OtherTaskEnds(i, st, out) ==
    /\ Agrees(st)
    /\ Canonical(st, out.calls)
    /\ stub' = Update(stub, Restrict(st, out.calls))
    /\ trace' = trace \o out.calls
    /\ cache' = out.cache
    /\ tasks' = [tasks EXCEPT ![i] = Done(out.val[1])]

\* one fetch_single coroutine of the second gather finishes
OtherTaskDone ==
    /\ pc = "others"
    /\ \E i \in InFlight :
         LET a == other_assets(args)[i]
         IN  \E st \in [Needed(a[1], a[2]) -> BatchResp] :
               OtherTaskEnds(i, st, fetch_single(a[1], a[2], st, cache, now, finnhub_api_key))
    /\ BatchFrame
    /\ UNCHANGED <<pc, ret, batch_prices, failed_symbols, rate, results>>

\* the second gather resumes (or there was nothing to gather) and the batch returns
OthersJoin ==
    /\ pc = "others"
    /\ GatherDone(tasks)
    /\ LET res == CollectOthers(other_assets(args), tasks, 1, results)
       IN  /\ results' = res
           /\ ret' = [ok |-> TRUE, exc |-> "", val |-> <<res>>]
    /\ pc' = "done"
    /\ BatchFrame
    /\ UNCHANGED <<cache, stub, trace, tasks, batch_prices, failed_symbols, rate>>

NextBatch ==
    \/ BatchStart
    \/ FinnhubTaskDone
    \/ FinnhubJoin
    \/ YahooDone
    \/ FxStep
    \/ StooqStep
    \/ OtherTaskDone
    \/ OthersJoin
    \/ Return

SpecBatch == Init /\ [][NextBatch]_vars

----------------------------------------------------------------------------
(* Properties *)

Terminal == pc \in {"done", "raised"}
InBatch == op = "get_price_krw_batch"

Count(seq, e) == Cardinality({i \in DOMAIN seq : seq[i] = e})

StubOk(k) == k \in DOMAIN stub /\ stub[k].kind = "ok"
StubFailed(k) == k \in DOMAIN stub /\ stub[k].kind # "ok"

\* both FX providers were asked and both failed
FxFailed == StubFailed(<<"er-api", NoSym>>) /\ StubFailed(<<"frankfurter", NoSym>>)

Requested == {args[i][1] : i \in DOMAIN args}

StoreKey(a) ==
    IF a[2] = "stock" THEN <<"stock", a[1]>>
    ELSE IF a[2] = "kr_stock" THEN <<"kr_stock", CleanSymbol(a[1])>>
    ELSE <<"btc", NoSym>>

\* the last adapter of the asset's chain was asked and failed (so all before it did)
ChainExhausted(a) ==
    IF a[2] = "stock" THEN StubFailed(<<"stooq", a[1]>>)
    ELSE IF a[2] = "kr_stock" THEN StubFailed(<<"pykrx", CleanSymbol(a[1])>>)
    ELSE StubFailed(<<"upbit", NoSym>>)

\* C2: a batch resolution of a key that was cached before the call and whose
\* whole chain now fails returns the cached value tagged "cache"
C2_StaleRecovery ==
    (Terminal /\ InBatch) =>
        \A i \in DOMAIN args :
            (StoreKey(args[i]) \in DOMAIN cache0 /\ ChainExhausted(args[i])) =>
                /\ ret.ok
                /\ args[i][1] \in DOMAIN ret.val[1]
                /\ ret.val[1][args[i][1]].source = "cache"
                /\ ret.val[1][args[i][1]].price_usd \in
                       {None, Some(cache0[StoreKey(args[i])][2])}

\* the stubs of this call, with every provider it did not reach failing
TotalStub(a) ==
    [k \in Needed(a[1], a[2]) |-> IF k \in DOMAIN stub THEN stub[k] ELSE Fail("http")]

\* C3: a singleton batch and a single resolution started from the same cache
\* under the same stubs give the same PriceResult, or both fail
C3_SingleBatchEquivalence ==
    (Terminal /\ InBatch /\ Len(args) = 1) =>
        LET a == args[1]
            single == get_price_krw(a[1], a[2], TotalStub(a), cache0, now, finnhub_api_key)
        IN  IF single.ok
            THEN /\ ret.ok
                 /\ a[1] \in DOMAIN ret.val[1]
                 /\ ret.val[1][a[1]] = single.val[1]
            ELSE ~ret.ok \/ a[1] \notin DOMAIN ret.val[1]

\* C4: with two foreign-equity symbols and both FX providers failing the batch
\* returns, and neither symbol has a result
C4_FxFailureReturnsFailures ==
    (Terminal /\ InBatch /\ FxFailed /\ Len(us_stock_symbols(args)) >= 2) =>
        /\ ret.ok
        /\ \A s \in Range(us_stock_symbols(args)) : s \notin DOMAIN ret.val[1]

\* some provider of the asset was asked and failed
ProviderFailed(a) == \E k \in Needed(a[1], a[2]) : StubFailed(k)

\* C5: when FX resolution fails, the domestic-equity and crypto symbols of the
\* batch whose own provider does not fail are in the returned map
C5_FxFailureSparesOthers ==
    (Terminal /\ InBatch /\ FxFailed) =>
        \A i \in DOMAIN args :
            (IsOther(args[i]) /\ ~ProviderFailed(args[i])) =>
                /\ ret.ok
                /\ args[i][1] \in DOMAIN ret.val[1]

\* the rate the FX providers give in this call
ResolvedRate ==
    IF StubOk(<<"er-api", NoSym>>) THEN stub[<<"er-api", NoSym>>].price
    ELSE stub[<<"frankfurter", NoSym>>].price

\* what the stubs of this call give a foreign-equity symbol on its own
ExpectedStock(s) ==
    LET f == <<"finnhub", s>>
        y == <<"yahoo", s>>
        q == <<"stooq", s>>
        Priced(k, source) ==
            Some(PriceResult(stub[k].price * ResolvedRate, source, Some(stub[k].price)))
    IN  IF finnhub_api_key /\ StubOk(f) THEN Priced(f, "finnhub")
        ELSE IF StubOk(<<"yahoo_batch", NoSym>>) /\ StubOk(y) THEN Priced(y, "yahoo")
        ELSE IF StubOk(q) THEN Priced(q, "stooq")
        ELSE None

\* what the stubs and the cache at the start give any other asset on its own
ExpectedOther(a) ==
    LET q == get_price_krw(a[1], a[2], TotalStub(a), cache0, now, finnhub_api_key)
    IN  IF q.ok THEN Some(q.val[1]) ELSE None

Expected(a) == IF IsStock(a) THEN ExpectedStock(a[1]) ELSE ExpectedOther(a)

\* C6: with FX available the batch returns normally, omits exactly the symbols
\* whose resolution failed, and gives every other symbol the result it has on its
\* own, whatever else is in the batch
C6_FailureIsolation ==
    (Terminal /\ InBatch /\ ~FxFailed) =>
        /\ ret.ok
        /\ \A i \in DOMAIN args :
              /\ args[i][1] \in DOMAIN ret.val[1] <=> Expected(args[i]) # None
              /\ Expected(args[i]) # None => ret.val[1][args[i][1]] = Expected(args[i])[1]

C6_Witness ==
    /\ pc = "done"
    /\ InBatch
    /\ \E i, j \in DOMAIN args :
          /\ ChainExhausted(args[i])
          /\ args[i][1] \notin DOMAIN ret.val[1]
          /\ args[j][1] \in DOMAIN ret.val[1]
          /\ IsStock(args[i])
          /\ IsStock(args[j])

\* C7: during a batch no provider is called more than once for one
\* foreign-equity symbol
C7_Dedup ==
    InBatch =>
        \A s \in Range(us_stock_symbols(args)) :
        \A p \in {"finnhub", "yahoo_batch", "stooq"} : Count(trace, <<p, s>>) <= 1

\* C8: a batch invokes the FX resolver at most once, and by the time it ends
\* exactly once if it holds a foreign-equity symbol and never if it holds none
C8_FxOncePerBatch ==
    InBatch =>
        /\ Count(trace, FxEntry) <= 1
        /\ Terminal =>
             Count(trace, FxEntry) = IF us_stock_symbols(args) # <<>> THEN 1 ELSE 0

C8_Witness ==
    /\ pc = "done"
    /\ InBatch
    /\ Cardinality(Range(us_stock_symbols(args))) >= 2
    /\ failed_symbols = {}
    /\ StubFailed(<<"stooq", AAPL>>)
    /\ StubOk(<<"stooq", MSFT>>)
    /\ Count(trace, FxEntry) = 1

\* the invocation has an answer
Answered(e) ==
    IF e = FxEntry THEN TRUE
    ELSE IF e[1] = "yahoo_batch" THEN <<"yahoo_batch", NoSym>> \in DOMAIN stub
    ELSE e \in DOMAIN stub

\* C9: when the batch returns or raises, no coroutine of a gather is pending and
\* every provider call it dispatched has been answered
C9_JoinBarrier ==
    (Terminal /\ InBatch) =>
        /\ InFlight = {}
        /\ \A i \in DOMAIN trace : Answered(trace[i])

C9_Witness ==
    /\ pc = "done"
    /\ InBatch
    /\ Count(trace, <<"finnhub", AAPL>>) = 1
    /\ Count(trace, <<"finnhub", MSFT>>) = 1
    /\ InFlight = {}

----------------------------------------------------------------------------
(* The cache layer on its own: stores and reads under a moving clock and   *)
(* under any TTL table (the table of the source keeps nothing fresh).      *)

MaxClock == 1
MaxTtl == 1

CacheKinds == {"usdkrw", "stock", "kr_stock", "btc"}

\* the table of the source, and the tables that keep one kind fresh for a while
TtlTables ==
    {_CACHE_TTL_MAP} \cup
    { [k \in CacheKinds |-> IF k = kind THEN n ELSE 0] : kind \in CacheKinds, n \in 1..MaxTtl }

CacheKeys == { <<"usdkrw", NoSym>>, <<"stock", AAPL>>, <<"kr_stock", KR>> }
CacheValues == {1, 2}

InitTtl ==
    /\ cache = EmptyMap
    /\ now = 0
    /\ ttl_map \in TtlTables
    /\ finnhub_api_key \in BOOLEAN
    /\ pc = "idle"
    /\ op = ""
    /\ args = <<>>
    /\ stub = EmptyMap
    /\ trace = <<>>
    /\ cache0 = EmptyMap
    /\ ret = [ok |-> TRUE, exc |-> "", val |-> <<>>]
    /\ tasks = <<>>
    /\ batch_prices = EmptyMap
    /\ failed_symbols = {}
    /\ rate = None
    /\ results = EmptyMap
    /\ holdings = <<>>
    /\ _swr_pending = {}

\* time() advances between two calls
Tick ==
    /\ pc = "idle"
    /\ now < MaxClock
    /\ now' = now + 1
    /\ UNCHANGED <<cache, ttl_map, finnhub_api_key, _swr_pending, pc, op, args, stub, trace, cache0, ret>>
    /\ BatchLocalsUnchanged

CacheSet ==
    /\ pc = "idle"
    /\ \E key \in CacheKeys, value \in CacheValues : cache' = _set_cache(cache, now, key, value)
    /\ UNCHANGED <<now, ttl_map, finnhub_api_key, _swr_pending, pc, op, args, stub, trace, cache0, ret>>
    /\ BatchLocalsUnchanged

CacheGet ==
    /\ pc = "idle"
    /\ \E key \in CacheKeys, allow_stale \in BOOLEAN :
          Finish("_get_cached", <<key, allow_stale>>, EmptyMap,
                 Ok(_get_cached(cache, now, key, allow_stale), cache, <<>>))

NextCache ==
    \/ Tick
    \/ CacheSet
    \/ CacheGet
    \/ Return

SpecCache == InitTtl /\ [][NextCache]_vars

\* C11: a read returns the stored value exactly when the entry exists and the
\* read allows stale values or the entry is younger than the TTL of its kind,
\* and nothing otherwise; under a TTL of 0 a read that does not allow stale
\* values returns nothing and one that does returns the value stored last.
C11_CacheRead ==
    (pc = "done" /\ op = "_get_cached") =>
        LET key == args[1]
            allow_stale == args[2]
            ttl == ttl_map[key[1]]
            hit == key \in DOMAIN cache /\ (allow_stale \/ now - cache[key][1] < ttl)
        IN  /\ ret.val[1] = (IF hit THEN Some(cache[key][2]) ELSE None)
            /\ (ttl = 0 /\ ~allow_stale) => ret.val[1] = None
            /\ (ttl = 0 /\ allow_stale /\ key \in DOMAIN cache)
                   => ret.val[1] = Some(cache[key][2])

\* an entry exists, its kind has TTL 0, and the read without allow_stale finds nothing
C11_Witness ==
    /\ pc = "done" /\ op = "_get_cached"
    /\ args[1] \in DOMAIN cache /\ ~args[2]
    /\ ttl_map[args[1][1]] = 0
    /\ ret.val[1] = None

----------------------------------------------------------------------------
(* Single resolution of crypto and domestic equity under a moving clock    *)
(* and any TTL table: an entry can be fresh when the next call reads it.   *)

TtlAssets == { <<BTC, "crypto">>, <<KR, "kr_stock">>, <<KR_KS, "kr_stock">> }

CallGetPriceKrwTtl == GetPriceKrwOver(TtlAssets, Resp, Resp)

NextTtl ==
    \/ Tick
    \/ CallGetPriceKrwTtl
    \/ Return

SpecTtl == InitTtl /\ [][NextTtl]_vars

\* the adapter named by the result answered during this call with the price returned
Supplied(r) ==
    \E i \in DOMAIN trace :
        /\ trace[i][1] = r.source
        /\ stub[trace[i]].kind = "ok"
        /\ stub[trace[i]].price = (IF r.price_usd # None THEN r.price_usd[1] ELSE r.price_krw)

\* C12: the source of a PriceResult is the adapter that supplied the price
\* during the call, and is "cache" when the price was read from the cache.
C12_Provenance ==
    (pc = "done" /\ op = "get_price_krw") =>
        (ret.val[1].source = "cache" \/ Supplied(ret.val[1]))

----------------------------------------------------------------------------
(* The foreign-equity chain when a provider may answer a price of zero *)

ZeroResp == {Fail("http"), Quote(0)} \cup {Quote(p) : p \in Prices}

CallFetchStockUsdPriceZero == FetchStockUsdPriceOver({AAPL}, ZeroResp)

CallGetPriceKrwZero == GetPriceKrwOver({<<AAPL, "stock">>}, ZeroResp, ZeroResp)

NextZero ==
    \/ CallFetchStockUsdPriceZero
    \/ CallGetPriceKrwZero
    \/ Return

SpecZero == Init /\ [][NextZero]_vars

\* C13: an adapter of the foreign-equity chain answering a price of zero
\* counts as failed: no call returns a zero USD price and no zero price is
\* stored for a stock.
C13_ZeroIsFailure ==
    /\ (pc = "done" /\ op = "fetch_stock_usd_price") => ret.val[1][1] # 0
    /\ (pc = "done" /\ op = "get_price_krw") => ret.val[1].price_usd # Some(0)
    /\ \A k \in DOMAIN cache : k[1] = "stock" => cache[k][2] # 0

----------------------------------------------------------------------------
(* The KRX close scan.  Day d is the day d days before date.today(); the   *)
(* stub <<"krx", d>> is what get_market_ohlcv_by_date answers for it:      *)
(* "nodata" an empty frame, "ok" a frame whose close is CloseOn(d), "http" *)
(* an exception of the library.                                            *)

ScanDays == 7

\* the days of the market record: the scanned ones and one beyond
KrxDays == 0..ScanDays

CloseOn(d) == d + 1

KrxAnswer(kind, d) == IF kind = "ok" THEN Quote(CloseOn(d)) ELSE Fail(kind)

\* mutant: the scan starts at the day before today
RECURSIVE KrxScan_FromYesterday(_, _, _)
KrxScan_FromYesterday(st, offset, calls) ==
    LET d == offset + 1
        r == st[<<"krx", d>>]
        called == Append(calls, <<"krx", d>>)
    IN  IF offset >= ScanDays THEN Raise("ValueError", EmptyMap, calls)
        ELSE IF r.kind = "http" THEN Raise("Exception", EmptyMap, called)
        ELSE IF r.kind = "nodata" THEN KrxScan_FromYesterday(st, offset + 1, called)
        ELSE Ok(r.price, EmptyMap, called)

\* for offset in range(0, 7): ... if data is None or data.empty: continue ... return float(close)
RECURSIVE KrxScan(_, _, _)
KrxScan(st, offset, calls) ==
    LET r == st[<<"krx", offset>>]
        called == Append(calls, <<"krx", offset>>)
    IN  IF offset >= ScanDays THEN Raise("ValueError", EmptyMap, calls)
        ELSE IF r.kind = "http" THEN Raise("Exception", EmptyMap, called)
        ELSE IF r.kind = "nodata" THEN KrxScan(st, offset + 1, called)
        ELSE Ok(r.price, EmptyMap, called)

_fetch_krx_close_price(symbol, st) == KrxScan(st, 0, <<>>)

CallFetchKrxClosePrice ==
    /\ pc = "idle"
    /\ \E kinds \in [KrxDays -> {"http", "nodata", "ok"}] :
          LET st == [k \in {<<"krx", d>> : d \in KrxDays} |-> KrxAnswer(kinds[k[2]], k[2])]
              out == _fetch_krx_close_price(KR, st)
          IN  /\ op' = "_fetch_krx_close_price"
              /\ args' = <<KR>>
              /\ stub' = st
              /\ trace' = out.calls
              /\ ret' = [ok |-> out.ok, exc |-> out.exc, val |-> out.val]
              /\ pc' = IF out.ok THEN "done" ELSE "raised"
    /\ cache0' = cache
    /\ UNCHANGED <<cache, now, ttl_map, finnhub_api_key, _swr_pending>>
    /\ BatchLocalsUnchanged

NextKrx ==
    \/ CallFetchKrxClosePrice
    \/ Return

SpecKrx == Init /\ [][NextKrx]_vars

KrxCalled == op = "_fetch_krx_close_price" /\ pc \in {"done", "raised"}

\* the days among ds on which the market record is of this kind
KrxDaysOf(kind, ds) == {d \in ds : stub[<<"krx", d>>].kind = kind}

Earliest(ds) == CHOOSE d \in ds : \A e \in ds : d <= e

\* C14 as stated: the scan returns the close of the most recent day strictly
\* before today that has a record, among the 7 days before today, and raises
\* ValueError when these 7 days are empty (market records without library errors).
C14_PreviousClose ==
    (KrxCalled /\ KrxDaysOf("http", KrxDays) = {}) =>
        LET recorded == KrxDaysOf("ok", 1..ScanDays)
        IN  IF recorded # {}
            THEN pc = "done" /\ ret.val[1] = CloseOn(Earliest(recorded))
            ELSE pc = "raised" /\ ret.exc = "ValueError"

\* C14 amended: the scan examines today and then the 6 days before it, one
\* day at a time going back, and stops at the first day that is not empty:
\* it returns that day's close (today's if today has a record), passes on the
\* library's exception if that day raised, and raises ValueError when all 7
\* days, today included, are empty.
C14_LatestClose ==
    KrxCalled =>
        LET scanned == 0..(ScanDays - 1)
            answered == scanned \ KrxDaysOf("nodata", scanned)
            first == Earliest(answered)
        IN  IF answered = {}
            THEN pc = "raised" /\ ret.exc = "ValueError"
                 /\ trace = [i \in 1..ScanDays |-> <<"krx", i - 1>>]
            ELSE /\ trace = [i \in 1..(first + 1) |-> <<"krx", i - 1>>]
                 /\ IF stub[<<"krx", first>>].kind = "ok"
                    THEN pc = "done" /\ ret.val[1] = CloseOn(first)
                    ELSE pc = "raised" /\ ret.exc = "Exception"

\* today and the two days before it are empty, the third day back has a
\* record, and its close is returned
C14_Witness ==
    /\ KrxCalled /\ pc = "done"
    /\ KrxDaysOf("nodata", 0..2) = 0..2
    /\ stub[<<"krx", 3>>].kind = "ok"
    /\ ret.val[1] = CloseOn(3)

----------------------------------------------------------------------------
(* Snapshot resolution of a foreign equity.  main.py imports                *)
(* get_snapshot_prices from services/pricing.py and reads price.note, but   *)
(* pricing.py defines neither; the market-window decision below follows     *)
(* the specification (4.5 Snapshot Resolver, MarketWindow).  A local time   *)
(* is a day of the week (0 = Monday, as datetime.weekday()) and the seconds *)
(* since local midnight.                                                    *)

Clock(h, m, sec) == (h * 60 + m) * 60 + sec

MarketOpen == Clock(9, 30, 0)
MarketClose == Clock(16, 0, 0)
TradingDays == 0..4

DaysOfWeek == 0..6
TimesOfDay == { Clock(0, 0, 0), Clock(9, 29, 59), Clock(9, 30, 0), Clock(12, 0, 0),
                Clock(15, 59, 59), Clock(16, 0, 0), Clock(23, 59, 59) }

\* mutant: the market counts as open only after the opening instant
is_market_open_AfterOpen(weekday, t) ==
    weekday \in TradingDays /\ MarketOpen < t /\ t <= MarketClose

\* inside the window; the specification leaves the closing instant itself undecided
is_market_open(weekday, t) ==
    weekday \in TradingDays /\ MarketOpen <= t /\ t <= MarketClose

SnapshotNotes(weekday, t) ==
    IF weekday \in TradingDays /\ t = MarketClose THEN {"live", "last close"}
    ELSE IF is_market_open(weekday, t) THEN {"live"}
    ELSE {"last close"}

\* the PriceResult of the fallback chain with the note attached
WithNote(out, note) ==
    IF out.ok
    THEN [out EXCEPT !.val = <<[price_krw |-> out.val[1].price_krw,
                                source |-> out.val[1].source,
                                price_usd |-> out.val[1].price_usd,
                                note |-> note]>>]
    ELSE out

\* get_snapshot_prices for one foreign equity at local time (weekday, t)
CallSnapshotStock ==
    /\ pc = "idle"
    /\ \E weekday \in DaysOfWeek, t \in TimesOfDay :
       \E note \in SnapshotNotes(weekday, t) :
       \E st \in [Needed(AAPL, "stock") -> Resp] :
          LET out == get_price_krw(AAPL, "stock", st, cache, now, finnhub_api_key)
          IN  /\ Canonical(st, out.calls)
              /\ Finish("get_snapshot_prices", <<AAPL, weekday, t>>, st, WithNote(out, note))

NextSnapshot ==
    \/ CallSnapshotStock
    \/ Return

SpecSnapshot == Init /\ [][NextSnapshot]_vars

SnapshotDone == pc = "done" /\ op = "get_snapshot_prices"

\* C15: a foreign-equity snapshot at 09:29:59 is noted "last close", one at
\* 09:30:00 on a weekday is noted "live", and one on a Saturday or Sunday is
\* noted "last close" whatever the time of day.
C15_MarketHoursBoundary ==
    SnapshotDone =>
        LET weekday == args[2]
            t == args[3]
            note == ret.val[1].note
        IN  /\ t = Clock(9, 29, 59) => note = "last close"
            /\ (t = Clock(9, 30, 0) /\ weekday \in 0..4) => note = "live"
            /\ weekday \in 5..6 => note = "last close"

\* a snapshot taken on a weekday at 09:30:00 sharp returned a live price
C15_Witness ==
    /\ SnapshotDone
    /\ args[2] \in 0..4 /\ args[3] = Clock(9, 30, 0)
    /\ ret.val[1].note = "live"

----------------------------------------------------------------------------
(* Properties of the FX resolver and of the single operations *)

Primary == <<"er-api", NoSym>>
Secondary == <<"frankfurter", NoSym>>

FxCalled == op = "fetch_usd_krw_rate" /\ pc \in {"done", "raised"}

\* C16: the FX resolver asks the primary provider first and the secondary
\* one exactly when the primary failed (transport error or a payload without
\* the KRW rate); it returns the rate of the first provider that answers and
\* stores it under "usdkrw"; when both fail it raises and the cache is as before.
C16_FxFallback ==
    FxCalled =>
        /\ trace \in {<<FxEntry, Primary>>, <<FxEntry, Primary, Secondary>>}
        /\ (Secondary \in Range(trace)) <=> (stub[Primary].kind # "ok")
        /\ IF stub[Primary].kind = "ok"
           THEN /\ pc = "done" /\ ret.val[1] = stub[Primary].price
                /\ cache = Put(cache0, <<"usdkrw", NoSym>>, <<now, stub[Primary].price>>)
           ELSE IF stub[Secondary].kind = "ok"
           THEN /\ pc = "done" /\ ret.val[1] = stub[Secondary].price
                /\ cache = Put(cache0, <<"usdkrw", NoSym>>, <<now, stub[Secondary].price>>)
           ELSE pc = "raised" /\ cache = cache0

\* the primary answered without a KRW rate and the secondary supplied the rate
C16_Witness ==
    /\ FxCalled /\ pc = "done"
    /\ trace = <<FxEntry, Primary, Secondary>>
    /\ stub[Primary].kind = "nodata"
    /\ <<"usdkrw", NoSym>> \in DOMAIN cache

----------------------------------------------------------------------------
(* Single and batch resolution side by side, with the answers of the batch *)
(* specification (a quote of 1 USD, a rate of 3 KRW).                      *)

CallGetPriceKrwLean == GetPriceKrwOver(BatchAssets, BatchResp, BatchFxResp)

NextEngine ==
    \/ NextBatch
    \/ CallGetPriceKrwLean

SpecEngine == Init /\ [][NextEngine]_vars

FxObtained == StubOk(Primary) \/ StubOk(Secondary)

\* r is the quote that provider r.source gave for s in this call, converted
\* at the rate the FX resolver obtained in this call
Converted(r, s) ==
    /\ r.price_usd # None
    /\ StubOk(<<r.source, s>>) /\ stub[<<r.source, s>>].price = r.price_usd[1]
    /\ FxObtained /\ r.price_krw = r.price_usd[1] * ResolvedRate

\* r is the stored quote of s converted at the stored rate
FromCache(r, s) ==
    /\ <<"stock", s>> \in DOMAIN cache /\ <<"usdkrw", NoSym>> \in DOMAIN cache
    /\ r.price_usd = Some(cache[<<"stock", s>>][2])
    /\ r.price_krw = cache[<<"stock", s>>][2] * cache[<<"usdkrw", NoSym>>][2]

SingleDone == pc = "done" /\ op = "get_price_krw"
BatchDone == pc = "done" /\ InBatch

\* C17 as stated: every foreign-equity result of a single or batch call is
\* the quote of its source converted at the rate obtained in that call, and
\* the results of the other asset types have no price_usd.
C17_Arithmetic ==
    /\ SingleDone =>
          IF args[2] = "stock" THEN Converted(ret.val[1], args[1])
          ELSE ret.val[1].price_usd = None
    /\ BatchDone =>
          \A i \in DOMAIN args :
             args[i][1] \in DOMAIN ret.val[1] =>
                IF IsStock(args[i]) THEN Converted(ret.val[1][args[i][1]], args[i][1])
                ELSE ret.val[1][args[i][1]].price_usd = None

\* C17 amended: a foreign-equity result whose source is a provider is that
\* provider's quote converted at the rate obtained in the same call (one rate
\* for the whole batch); a foreign-equity result of the single call whose
\* source is "cache" is the stored quote times the stored rate; the batch
\* returns no foreign-equity result from the cache; the results of the other
\* asset types have no price_usd.
C17_ArithmeticOrCache ==
    /\ SingleDone =>
          IF args[2] # "stock" THEN ret.val[1].price_usd = None
          ELSE IF ret.val[1].source = "cache" THEN FromCache(ret.val[1], args[1])
          ELSE Converted(ret.val[1], args[1])
    /\ BatchDone =>
          \A i \in DOMAIN args :
             args[i][1] \in DOMAIN ret.val[1] =>
                IF IsStock(args[i])
                THEN /\ ret.val[1][args[i][1]].source # "cache"
                     /\ Converted(ret.val[1][args[i][1]], args[i][1])
                ELSE ret.val[1][args[i][1]].price_usd = None

\* a batch returned two foreign equities priced by different providers at
\* the one rate of the batch
C17_Witness ==
    /\ BatchDone
    /\ AAPL \in DOMAIN ret.val[1] /\ MSFT \in DOMAIN ret.val[1]
    /\ ret.val[1][AAPL].source # ret.val[1][MSFT].source
    /\ ret.val[1][AAPL].price_krw = ret.val[1][AAPL].price_usd[1] * ResolvedRate
    /\ ret.val[1][MSFT].price_krw = ret.val[1][MSFT].price_usd[1] * ResolvedRate
    /\ ResolvedRate > 1

\* C18: a successful fetch_stock_usd_price returns a price above 0 and the
\* source "finnhub" or "stooq" (the assertions of test_fetch_stock_usd_price_tsla).
C18_PriceAndSource ==
    (pc = "done" /\ op = "fetch_stock_usd_price") =>
        /\ ret.val[1][1] > 0
        /\ ret.val[1][2] \in {"finnhub", "stooq"}

----------------------------------------------------------------------------
(* The refresh handlers of main.py: refresh_single_asset, refresh_prices   *)
(* and refresh_all_asset_prices.  An Asset row is [symbol, asset_type,     *)
(* last_price_krw, last_source]; last_source "manual" stands for the       *)
(* source's label of a directly entered price.                             *)

MaxHoldings == 2

Row(symbol, asset_type, price) ==
    [symbol |-> symbol, asset_type |-> asset_type, last_price_krw |-> price, last_source |-> ""]

\* rows a user can hold: a stock, BTC, a manual holding with a price, and a
\* manual holding without one whose symbol is also a ticker
RefreshRows ==
    { Row(AAPL, "stock", None), Row(BTC, "crypto", None),
      Row(GOLD, "cash", Some(7)), Row(AAPL, "cash", None) }

RefreshInputs == UNION { [1..n -> RefreshRows] : n \in 0..MaxHoldings }

\* asset_type not in {"stock", "crypto", "kr_stock"}
IsManual(row) == row.asset_type \notin {"stock", "crypto", "kr_stock"}
IsFetched(row) == ~IsManual(row)

\* if asset.last_price_krw is None: asset.last_price_krw = 0.0; asset.last_source = ...
ManualDefault(row) ==
    [row EXCEPT !.last_price_krw = IF @ = None THEN Some(0) ELSE @, !.last_source = "manual"]

\* fetch_targets / batch_input of refresh_prices
fetch_targets(rows) == SelectSeq(rows, IsFetched)
batch_input(rows) ==
    LET ts == fetch_targets(rows) IN [i \in 1..Len(ts) |-> <<ts[i].symbol, ts[i].asset_type>>]

\* list(unique_symbols.keys()) of refresh_all_asset_prices: each (symbol, type) once
RECURSIVE UniqueKeys(_, _)
UniqueKeys(pairs, seen) ==
    IF pairs = <<>> THEN <<>>
    ELSE IF Head(pairs) \in seen THEN UniqueKeys(Tail(pairs), seen)
    ELSE <<Head(pairs)>> \o UniqueKeys(Tail(pairs), seen \cup {Head(pairs)})

unique_symbols(rows) == UniqueKeys(batch_input(rows), {})

\* mutant: the price of a symbol is written into every row with that symbol
ApplyPrices_BySymbol(rows, res, with_source) ==
    [i \in DOMAIN rows |->
        IF rows[i].symbol \in DOMAIN res
        THEN [rows[i] EXCEPT !.last_price_krw = Some(res[rows[i].symbol].price_krw),
                             !.last_source = IF with_source THEN res[rows[i].symbol].source
                                             ELSE @]
        ELSE rows[i]]

\* the loop that writes the prices of the batch into the fetched rows
ApplyPrices(rows, res, with_source) ==
    [i \in DOMAIN rows |->
        IF IsFetched(rows[i]) /\ rows[i].symbol \in DOMAIN res
        THEN [rows[i] EXCEPT !.last_price_krw = Some(res[rows[i].symbol].price_krw),
                             !.last_source = IF with_source THEN res[rows[i].symbol].source
                                             ELSE @]
        ELSE rows[i]]

RefreshOps == {"refresh_single_asset", "refresh_prices", "refresh_all_asset_prices"}

\* refresh_single_asset after its price lookup: the row is updated and
\* committed, or the failure is reported and the row stays as loaded
RefreshSingleCommit(row, st, out) ==
    /\ Canonical(st, out.calls)
    /\ stub' = Restrict(st, out.calls)
    /\ trace' = out.calls
    /\ cache' = out.cache
    /\ holdings' = IF IsManual(row) THEN <<ManualDefault(row)>>
                    ELSE IF out.ok
                    THEN <<[row EXCEPT !.last_price_krw = Some(out.val[1].price_krw),
                                       !.last_source = out.val[1].source]>>
                    ELSE <<row>>
    /\ ret' = [ok |-> out.ok, exc |-> IF out.ok THEN "" ELSE "HTTPException", val |-> <<>>]
    /\ pc' = IF out.ok THEN "committed" ELSE "failed"

\* POST /assets/{id}/refresh
RefreshSingleAsset ==
    /\ pc = "idle"
    /\ \E row \in RefreshRows :
       \E st \in {f \in [Needed(row.symbol, row.asset_type) -> BatchResp \cup BatchFxResp] :
                     \A k \in DOMAIN f : f[k] \in AnswersTo(k, BatchResp, BatchFxResp)} :
          RefreshSingleCommit(row, st,
                              IF IsManual(row) THEN Ok(0, cache, <<>>)
                              ELSE get_price_krw(row.symbol, row.asset_type, st, cache, now,
                                                 finnhub_api_key))
    /\ op' = "refresh_single_asset"
    /\ args' = <<>>
    /\ cache0' = cache
    /\ UNCHANGED <<now, ttl_map, finnhub_api_key, _swr_pending, tasks, batch_prices,
                   failed_symbols, rate, results>>

\* a handler that has nothing to fetch commits at once
NothingToFetch(name) ==
    /\ op' = name
    /\ args' = <<>>
    /\ cache0' = cache
    /\ trace' = <<>>
    /\ pc' = "committed"
    /\ UNCHANGED <<cache, now, ttl_map, finnhub_api_key, _swr_pending, stub, ret, tasks, batch_prices,
                   failed_symbols, rate, results>>

\* POST /refresh up to the call of get_price_krw_batch
RefreshPricesStart ==
    /\ pc = "idle"
    /\ \E rows \in RefreshInputs :
          /\ holdings' = [i \in DOMAIN rows |->
                             IF IsManual(rows[i]) THEN ManualDefault(rows[i]) ELSE rows[i]]
          /\ IF fetch_targets(rows) # <<>>
             THEN BatchBegin("refresh_prices", batch_input(rows))
             ELSE NothingToFetch("refresh_prices")

\* the scheduled refresh up to the call of get_price_krw_batch
RefreshAllStart ==
    /\ pc = "idle"
    /\ \E rows \in RefreshInputs :
          /\ holdings' = rows
          /\ IF unique_symbols(rows) # <<>>
             THEN BatchBegin("refresh_all_asset_prices", unique_symbols(rows))
             ELSE NothingToFetch("refresh_all_asset_prices")

\* the batch has returned or raised: prices are written and committed, or
\* the exception leaves the rows as they were loaded
RefreshApply ==
    /\ pc \in {"done", "raised"}
    /\ op \in RefreshOps
    /\ IF pc = "done"
       THEN /\ holdings' = ApplyPrices(holdings, ret.val[1], op = "refresh_prices")
            /\ pc' = "committed"
       ELSE /\ holdings' = holdings
            /\ pc' = "failed"
    /\ UNCHANGED <<cache, now, ttl_map, finnhub_api_key, _swr_pending, op, args, stub, trace, cache0, ret,
                   tasks, batch_prices, failed_symbols, rate, results>>

\* get_price_krw called with the asset type of a row, whatever it is
CallGetPriceKrwRow ==
    GetPriceKrwOver({<<r.symbol, r.asset_type>> : r \in RefreshRows}, BatchResp, BatchFxResp)

RefreshReturn ==
    /\ \/ pc \in {"committed", "failed"}
       \/ pc \in {"done", "raised"} /\ op = "get_price_krw"
    /\ pc' = "idle"
    /\ op' = ""
    /\ args' = <<>>
    /\ stub' = EmptyMap
    /\ trace' = <<>>
    /\ cache0' = EmptyMap
    /\ ret' = [ok |-> TRUE, exc |-> "", val |-> <<>>]
    /\ tasks' = <<>>
    /\ batch_prices' = EmptyMap
    /\ failed_symbols' = {}
    /\ rate' = None
    /\ results' = EmptyMap
    /\ holdings' = <<>>
    /\ UNCHANGED <<cache, now, ttl_map, finnhub_api_key, _swr_pending>>

NextRefresh ==
    \/ RefreshSingleAsset
    \/ RefreshPricesStart
    \/ RefreshAllStart
    \/ FinnhubTaskDone
    \/ FinnhubJoin
    \/ YahooDone
    \/ FxStep
    \/ StooqStep
    \/ OtherTaskDone
    \/ OthersJoin
    \/ RefreshApply
    \/ CallGetPriceKrwRow
    \/ RefreshReturn

SpecRefresh == Init /\ [][NextRefresh]_vars

\* the provider call is one that resolving this row can make
CallFor(call, row) ==
    IF call[1] \in {"finnhub", "yahoo", "stooq"}
    THEN row.asset_type = "stock" /\ call[2] = row.symbol
    ELSE IF call[1] = "yahoo_batch"
    THEN row.asset_type = "stock" /\ call[2] \in {row.symbol, NoSym}
    ELSE IF call[1] \in {"fetch_usd_krw_rate", "er-api", "frankfurter"}
    THEN row.asset_type = "stock"
    ELSE IF call[1] = "upbit" THEN row.asset_type = "crypto"
    ELSE IF call[1] = "pykrx" THEN row.asset_type = "kr_stock"
    ELSE FALSE

\* the row as its owner entered it
Entered(row) ==
    CHOOSE r \in RefreshRows : r.symbol = row.symbol /\ r.asset_type = row.asset_type

\* C19: in every refresh path each provider call is made for a holding of
\* type stock, kr_stock or crypto (so holdings of any other type cause none),
\* the price of a holding of another type stays the one entered (0 when none
\* was entered), and get_price_krw called with such a type raises ValueError
\* without a provider call or a cache write.
C19_ManualBypass ==
    /\ op \in RefreshOps =>
          /\ \A i \in DOMAIN trace :
                \E j \in DOMAIN holdings : IsFetched(holdings[j]) /\ CallFor(trace[i], holdings[j])
          /\ \A k \in DOMAIN stub :
                \E j \in DOMAIN holdings : IsFetched(holdings[j]) /\ CallFor(k, holdings[j])
          /\ \A j \in DOMAIN holdings :
                IsManual(holdings[j]) =>
                    holdings[j] \in {Entered(holdings[j]), ManualDefault(Entered(holdings[j]))}
    /\ (op = "get_price_krw" /\ Terminal /\ args[2] \notin {"stock", "crypto", "kr_stock"}) =>
          /\ pc = "raised" /\ ret.exc = "ValueError"
          /\ trace = <<>> /\ stub = EmptyMap /\ cache = cache0

\* a user refresh committed a fetched price for the stock AAPL next to a
\* manual holding named AAPL, which kept its default price
C19_Witness ==
    /\ pc = "committed" /\ op = "refresh_prices"
    /\ \E i, j \in DOMAIN holdings :
          /\ holdings[i] = ManualDefault(Row(AAPL, "cash", None))
          /\ holdings[j].asset_type = "stock"
          /\ holdings[j].last_source \in {"finnhub", "yahoo", "stooq"}
    /\ trace # <<>>

----------------------------------------------------------------------------
(* Concurrency of the batch *)

\* Stooq attempts of this batch that have been made
StooqTried == {k[2] : k \in {x \in Range(trace) : x[1] = "stooq"}}

\* C20: while a batch is under way no resolution waits for another one to
\* finish: the domestic-equity and crypto resolutions are dispatched while the
\* foreign-equity partition is still being resolved, and once one Stooq
\* attempt has been made the attempts for all symbols left to Stooq are under way.
C20_ConcurrentFanOut ==
    (InBatch /\ ~Terminal) =>
        /\ other_assets(args) # <<>> => pc = "others"
        /\ (pc = "stooq" /\ StooqTried # {}) => failed_symbols \subseteq StooqTried

----------------------------------------------------------------------------
(* Adapter order of the batch path *)

\* the positions of the batch's log at which the adapter was asked for the symbol
Asked(adapter, s) == {i \in DOMAIN trace : trace[i] = <<adapter, s>>}

\* the Yahoo request has answered without a price for the symbol
YahooFailed(s) == StubFailed(<<"yahoo_batch", NoSym>>) \/ StubFailed(<<"yahoo", s>>)

----------------------------------------------------------------------------
(* Failure kinds in the single chain *)

\* what a provider of the chain can answer: each kind of failure, or a price
FailureKinds == Transport \cup {"malformed", "nodata"}
ChainResp == {Fail(k) : k \in FailureKinds} \cup {Quote(p) : p \in Prices}

CallFetchStockUsdPriceKinds == FetchStockUsdPriceOver({AAPL, MSFT}, ChainResp)

NextChain ==
    \/ CallFetchStockUsdPriceKinds
    \/ Return

SpecChain == Init /\ [][NextChain]_vars

\* the adapters of the chain in priority order, Finnhub only with a key
Chain == IF finnhub_api_key THEN <<"finnhub", "yahoo", "stooq">> ELSE <<"yahoo", "stooq">>

\* C22: in fetch_stock_usd_price the failure of an adapter, of whatever kind,
\* is followed by the next adapter; without the Finnhub key Finnhub is not
\* called and Yahoo comes first; the call raises "all price sources failed"
\* (ValueError) exactly when every adapter of the chain has failed
C22_NoFailureAbortsChain ==
    (Terminal /\ op = "fetch_stock_usd_price") =>
        /\ trace # <<>> /\ trace[1] = <<Chain[1], args[1]>>
        /\ ~finnhub_api_key => <<"finnhub", args[1]>> \notin DOMAIN stub \cup Range(trace)
        /\ \A i \in 1..(Len(Chain) - 1) :
              StubFailed(<<Chain[i], args[1]>>) =>
                  /\ Len(trace) > i
                  /\ trace[i + 1] = <<Chain[i + 1], args[1]>>
        /\ pc = "raised" <=> \A i \in DOMAIN Chain : StubFailed(<<Chain[i], args[1]>>)
        /\ pc = "raised" => ret.exc = "ValueError"

\* Finnhub answered 429, Yahoo timed out, Stooq's answer was malformed:
\* all three were asked and the call raised
C22_Witness ==
    /\ pc = "raised" /\ op = "fetch_stock_usd_price" /\ finnhub_api_key
    /\ stub[<<"finnhub", args[1]>>].kind = "429"
    /\ stub[<<"yahoo", args[1]>>].kind = "timeout"
    /\ stub[<<"stooq", args[1]>>].kind = "malformed"
    /\ Len(trace) = 3

----------------------------------------------------------------------------
(* Cache write on success *)

\* single resolutions whose providers quote a second price, next to batches
StoreResp == {Fail("http"), Quote(1), Quote(2)}

CallGetPriceKrwStore == GetPriceKrwOver({<<AAPL, "stock">>}, StoreResp, BatchFxResp)

NextStore ==
    \/ NextBatch
    \/ CallGetPriceKrwStore

SpecStore == Init /\ [][NextStore]_vars

\* the foreign-equity symbols of the call that has ended
StockSymbols ==
    IF InBatch THEN Range(us_stock_symbols(args))
    ELSE IF op = "get_price_krw" /\ args[2] = "stock" THEN {args[1]}
    ELSE {}

StockAdapters == {"finnhub", "yahoo", "stooq"}

\* C23: when a single or batch resolution has ended in which a provider
\* returned the price P for the requested foreign-equity symbol S, the entry
\* stock:S of the cache holds P and a stale read of it yields P; a later single
\* resolution of S whose providers all fail returns it tagged "cache" when a
\* rate is cached too
C23_CacheWriteOnSuccess ==
    /\ Terminal =>
          \A s \in StockSymbols : \A a \in StockAdapters :
              StubOk(<<a, s>>) =>
                  /\ <<"stock", s>> \in DOMAIN cache
                  /\ cache[<<"stock", s>>][2] = stub[<<a, s>>].price
                  /\ _get_cached(cache, now, <<"stock", s>>, TRUE) = Some(stub[<<a, s>>].price)
    /\ (Terminal /\ op = "get_price_krw" /\ args[2] = "stock" /\ ChainExhausted(args)
            /\ {<<"stock", args[1]>>, <<"usdkrw", NoSym>>} \subseteq DOMAIN cache0) =>
          /\ pc = "done"
          /\ ret.val[1].source = "cache"
          /\ ret.val[1].price_usd = Some(cache0[<<"stock", args[1]>>][2])

\* a batch stored the price 1 that Stooq gave for AAPL over the 2 left by an
\* earlier single resolution
C23_Witness ==
    /\ pc = "done" /\ InBatch
    /\ StubOk(<<"stooq", AAPL>>)
    /\ <<"stock", AAPL>> \in DOMAIN cache0
    /\ cache0[<<"stock", AAPL>>][2] = 2
    /\ cache[<<"stock", AAPL>>][2] = 1

----------------------------------------------------------------------------
(* Concurrent resolutions on the shared cache.                             *)
(* Request handlers await get_price_krw side by side.  A resolution touches *)
(* the cache only between two awaits: a fetcher stores its price in the     *)
(* step in which the successful answer arrives, and the stale reads follow  *)
(* the failure without an await in between.  Providers may answer each      *)
(* request differently; stub holds the answers of the latest step.          *)

RaceAssets == { <<AAPL, "stock">>, <<BTC, "crypto">> }
RaceResp == {Fail("http"), Quote(1), Quote(2)}
RaceInputs == [1..2 -> RaceAssets]

Awaiting(state) == {i \in DOMAIN tasks : tasks[i].state = state}

RaceStart ==
    /\ pc = "idle"
    /\ \E assets \in RaceInputs :
          /\ args' = assets
          /\ tasks' = [i \in DOMAIN assets |-> Pending]
    /\ pc' = "race"
    /\ op' = "concurrent get_price_krw"
    /\ cache0' = cache
    /\ UNCHANGED <<cache, now, ttl_map, finnhub_api_key, _swr_pending, stub, trace, ret, batch_prices,
                   failed_symbols, rate, results, holdings>>

\* a resolution's step ends: the answers it got, the cache it leaves, its new position
RaceStep(i, st, calls, c, position) ==
    /\ Canonical(st, calls)
    /\ stub' = Restrict(st, calls)
    /\ cache' = c
    /\ tasks' = [tasks EXCEPT ![i] = position]
    /\ UNCHANGED <<now, ttl_map, finnhub_api_key, _swr_pending, pc, op, args, trace, cache0, ret,
                   batch_prices, failed_symbols, rate, results, holdings>>

\* await fetch_stock_usd_price(symbol, client) returns or raises
RaceChainDone ==
    /\ pc = "race"
    /\ \E i \in Awaiting("pending") :
          /\ args[i][2] = "stock"
          /\ \E st \in [{<<"finnhub", args[i][1]>>, <<"yahoo", args[i][1]>>,
                         <<"stooq", args[i][1]>>} -> RaceResp] :
                LET q == fetch_stock_usd_price(args[i][1], st, cache, now, finnhub_api_key)
                IN  RaceStep(i, st, q.calls, q.cache,
                             IF q.ok THEN [state |-> "fx", val |-> Some(q.val[1][1])]
                             ELSE Done(None))

\* await fetch_usd_krw_rate(client) returns or raises
RaceFxDone ==
    /\ pc = "race"
    /\ \E i \in Awaiting("fx") :
       \E st \in [{<<"er-api", NoSym>>, <<"frankfurter", NoSym>>} -> RaceResp] :
          LET fx == fetch_usd_krw_rate(st, cache, now)
          IN  RaceStep(i, st, fx.calls, fx.cache, Done(tasks[i].val))

\* await fetch_btc_krw_price(client) returns or raises
RaceCryptoDone ==
    /\ pc = "race"
    /\ \E i \in Awaiting("pending") :
          /\ args[i][2] = "crypto"
          /\ \E st \in [Needed(args[i][1], args[i][2]) -> RaceResp] :
                LET q == get_price_krw(args[i][1], args[i][2], st, cache, now, finnhub_api_key)
                IN  RaceStep(i, st, q.calls, q.cache,
                             Done(IF st[<<"upbit", NoSym>>].kind = "ok"
                                  THEN Some(st[<<"upbit", NoSym>>].price) ELSE None))

\* every handler has answered
RaceEnd ==
    /\ pc = "race"
    /\ GatherDone(tasks)
    /\ pc' = "done"
    /\ UNCHANGED <<cache, now, ttl_map, finnhub_api_key, _swr_pending, op, args, stub, trace, cache0, ret,
                   tasks, batch_prices, failed_symbols, rate, results, holdings>>

NextRace ==
    \/ RaceStart
    \/ RaceChainDone
    \/ RaceFxDone
    \/ RaceCryptoDone
    \/ RaceEnd
    \/ Return

SpecRace == Init /\ [][NextRace]_vars

\* the cache key a provider's answer is stored under
KeyOf(call) ==
    IF call[1] \in {"finnhub", "yahoo", "stooq"} THEN <<"stock", call[2]>>
    ELSE IF call[1] \in {"er-api", "frankfurter"} THEN <<"usdkrw", NoSym>>
    ELSE IF call[1] = "pykrx" THEN <<"kr_stock", call[2]>>
    ELSE <<"btc", NoSym>>

\* the step resumes one of the resolutions with its providers' answers
Resumed == pc = "race" /\ tasks' # tasks

\* the prices the providers returned for the key in the step being taken
ReturnedFor(k) ==
    IF Resumed
    THEN {stub'[x].price : x \in {y \in DOMAIN stub' : KeyOf(y) = k /\ stub'[y].kind = "ok"}}
    ELSE {}

\* C24: in every step of every interleaving of concurrent resolutions no cache
\* entry is removed, an entry changes only to a price a provider returned for
\* its key in that step (never a value taken from the cache or put together
\* from several answers), the entries of all other keys stay as they were,
\* and a price returned for a key becomes that key's entry whatever an earlier
\* writer left there
C24_CacheIntegrity ==
    [][ /\ DOMAIN cache \subseteq DOMAIN cache'
        /\ \A k \in DOMAIN cache' :
              \/ ReturnedFor(k) = {} /\ k \in DOMAIN cache /\ cache'[k] = cache[k]
              \/ ReturnedFor(k) = {cache'[k][2]}
      ]_vars

\* two resolutions of BTC ran side by side, the providers gave them different
\* prices, and the cache holds the one that arrived last
C24_Witness ==
    /\ pc = "race"
    /\ GatherDone(tasks)
    /\ args[1] = <<BTC, "crypto">> /\ args[2] = <<BTC, "crypto">>
    /\ tasks[1].val # None /\ tasks[2].val # None
    /\ tasks[1].val # tasks[2].val
    /\ <<"btc", NoSym>> \in DOMAIN cache0
    /\ cache[<<"btc", NoSym>>][2] = stub[<<"upbit", NoSym>>].price

----------------------------------------------------------------------------
(* Stale reads *)

\* the provider fetch for the key of each stale read behind a "cache" result
\* has failed in the call that ended
FetchFailedFor(a) ==
    IF a[2] = "stock" THEN ChainExhausted(a) /\ FxFailed
    ELSE ChainExhausted(a)

\* C25: a stale-allowed read of a key happens only after the provider fetch for
\* that key has failed in the same call: a result tagged "cache" is built only
\* from keys whose fetch was attempted and failed, and a result with any other
\* tag carries the price a provider returned during the call
C25_StaleOnlyAfterFailure ==
    (pc = "done" /\ op = "get_price_krw") =>
        IF ret.val[1].source = "cache"
        THEN FetchFailedFor(args)
        ELSE \E k \in DOMAIN stub : StubOk(k) /\ k[1] = ret.val[1].source

----------------------------------------------------------------------------
(* Stale-while-revalidate: _refresh_cache_background(key, fetch_coro).      *)
(* Invocations are coroutines started side by side; each runs from its      *)
(* entry to "await fetch_coro" without an await, and from the end of the     *)
(* fetch through the finally clause without one.                             *)

MaxRefresh == 3

SwrKeys == { <<"btc", NoSym>>, <<"usdkrw", NoSym>> }
SwrInputs == [1..MaxRefresh -> SwrKeys]

\* how an awaited fetch_coro may end: it returns, it raises an Exception
\* (logged), or the task is cancelled while waiting
FetchEnds == {"returned", "raised", "cancelled"}

Called == [state |-> "called", val |-> <<>>]
Skipped == [state |-> "skipped", val |-> <<>>]

\* mutant: the refresh is started without looking at the pending set
swr_enter_Unchecked(pending, key) ==
    [awaits |-> TRUE, pending |-> pending \cup {key}]

\* if key in _swr_pending: return; _swr_pending.add(key); try: await fetch_coro
swr_enter(pending, key) ==
    IF key \in pending THEN [awaits |-> FALSE, pending |-> pending]
    ELSE [awaits |-> TRUE, pending |-> pending \cup {key}]

\* finally: _swr_pending.discard(key)
swr_finally(pending, key) == pending \ {key}

SwrFrame ==
    UNCHANGED <<cache, now, ttl_map, finnhub_api_key, op, args, stub, trace, cache0, ret,
                batch_prices, failed_symbols, rate, results, holdings>>

\* the invocations are created, none has run yet
SwrStart ==
    /\ pc = "idle"
    /\ \E keys \in SwrInputs :
          /\ args' = keys
          /\ tasks' = [i \in DOMAIN keys |-> Called]
    /\ pc' = "swr"
    /\ op' = "_refresh_cache_background"
    /\ UNCHANGED <<cache, now, ttl_map, finnhub_api_key, _swr_pending, stub, trace, cache0, ret,
                   batch_prices, failed_symbols, rate, results, holdings>>

\* an invocation runs up to its await, or returns at once
SwrEnter ==
    /\ pc = "swr"
    /\ \E i \in Awaiting("called") :
          LET e == swr_enter(_swr_pending, args[i])
          IN  /\ _swr_pending' = e.pending
              /\ tasks' = [tasks EXCEPT ![i] = IF e.awaits THEN Pending ELSE Skipped]
    /\ UNCHANGED pc
    /\ SwrFrame

\* the awaited fetch ends and the finally clause runs
SwrFetchDone ==
    /\ pc = "swr"
    /\ \E i \in Awaiting("pending") : \E how \in FetchEnds :
          /\ _swr_pending' = swr_finally(_swr_pending, args[i])
          /\ tasks' = [tasks EXCEPT ![i] = Done(<<how>>)]
    /\ UNCHANGED pc
    /\ SwrFrame

\* every invocation has returned
SwrEnd ==
    /\ pc = "swr"
    /\ Awaiting("called") = {} /\ Awaiting("pending") = {}
    /\ pc' = "done"
    /\ UNCHANGED <<tasks, _swr_pending>>
    /\ SwrFrame

NextSwr ==
    \/ SwrStart
    \/ SwrEnter
    \/ SwrFetchDone
    \/ SwrEnd
    \/ Return

SpecSwr == Init /\ [][NextSwr]_vars

\* the invocations that are awaiting the refresh fetch for the key
Fetching(key) == {i \in Awaiting("pending") : args[i] = key}

\* C26: of the concurrent invocations of _refresh_cache_background for one key
\* at most one is awaiting the refresh fetch at any time and the pending set
\* names exactly the keys being fetched; an invocation returns without
\* fetching exactly when another one is fetching its key, so invocations for
\* different keys never hold each other up
C26_SingleFlight ==
    /\ [](op = "_refresh_cache_background" =>
            /\ \A key \in SwrKeys : Cardinality(Fetching(key)) <= 1
            /\ _swr_pending = {key \in SwrKeys : Fetching(key) # {}})
    /\ [][\A i \in DOMAIN tasks :
            (op = "_refresh_cache_background" /\ tasks[i].state = "called"
                /\ tasks'[i].state # "called") =>
                IF Fetching(args[i]) # {} THEN tasks'[i].state = "skipped"
                ELSE tasks'[i].state = "pending"]_vars

\* one invocation is fetching btc, a second one for btc has returned without
\* fetching, and a third one is fetching usdkrw at the same time
C26_Witness ==
    /\ pc = "swr"
    /\ \E i, j, k \in DOMAIN tasks :
          /\ args[i] = <<"btc", NoSym>> /\ tasks[i].state = "pending"
          /\ args[j] = <<"btc", NoSym>> /\ tasks[j].state = "skipped"
          /\ args[k] = <<"usdkrw", NoSym>> /\ tasks[k].state = "pending"

----------------------------------------------------------------------------
(* Recovery of the crypto resolution *)

\* C27: a BTC resolution through get_price_krw whose provider fails, by a
\* transport error or by a successful response with an empty or malformed
\* payload alike, returns the cached BTC value tagged "cache" when there is
\* one and fails otherwise
C27_NoDataRecovers ==
    (Terminal /\ op = "get_price_krw" /\ args[2] = "crypto" /\ Upper(args[1]) = BTC
        /\ StubFailed(<<"upbit", NoSym>>)) =>
        IF <<"btc", NoSym>> \in DOMAIN cache0
        THEN /\ pc = "done"
             /\ ret.val[1] = PriceResult(cache0[<<"btc", NoSym>>][2], "cache", None)
        ELSE pc = "raised"

----------------------------------------------------------------------------
(* Cache key of a domestic equity *)

\* C28: for a domestic symbol carrying an exchange suffix, the stale-recovery
\* read of get_price_krw uses the key under which a successful fetch of that
\* symbol stored its price: when the provider fails and that entry exists,
\* its value is returned tagged "cache"
C28_KeyRoundTrip ==
    (Terminal /\ op = "get_price_krw" /\ args[2] = "kr_stock" /\ Len(args[1]) > 1
        /\ ChainExhausted(args) /\ StoreKey(args) \in DOMAIN cache0) =>
        /\ pc = "done"
        /\ ret.val[1] = PriceResult(cache0[StoreKey(args)][2], "cache", None)

----------------------------------------------------------------------------
(* Keys of the batch result *)

\* the Yahoo v7 response may name any symbol Yahoo knows
YahooDoneAny == YahooAnswers(Range(QuoteSymbols))

NextYahoo ==
    \/ BatchStart
    \/ FinnhubTaskDone
    \/ FinnhubJoin
    \/ YahooDoneAny
    \/ FxStep
    \/ StooqStep
    \/ OtherTaskDone
    \/ OthersJoin
    \/ Return

SpecYahoo == Init /\ [][NextYahoo]_vars

\* the cache entries created or replaced since the call began
Written == {k \in DOMAIN cache : k \notin DOMAIN cache0 \/ cache[k] # cache0[k]}

\* C29: whatever the providers answer, a Yahoo batch response naming symbols
\* that were not asked for included, the map returned by get_price_krw_batch
\* has only symbols of the input as keys, and only entries of requested symbols
\* (and the rate) are written to the cache
C29_RequestedKeysOnly ==
    (pc = "done" /\ InBatch) =>
        /\ DOMAIN ret.val[1] \subseteq Requested
        /\ Written \subseteq {StoreKey(args[i]) : i \in DOMAIN args} \cup {<<"usdkrw", NoSym>>}

----------------------------------------------------------------------------
(* Recovery of the foreign-equity resolution *)

\* the error that ended the quote chain or the FX resolver
OriginalError ==
    IF ChainExhausted(args) THEN "ValueError"
    ELSE IF stub[Secondary].kind = "nodata" THEN "ValueError"
    ELSE "HTTPError"

\* C30: when the quote chain or the FX resolver of a foreign-equity
\* get_price_krw fails, the result is cached price x cached rate tagged "cache"
\* if the cache holds both the symbol's entry and the rate; otherwise the
\* original error propagates and nothing is returned; the recovery itself
\* leaves the cache as the fetches left it
C30_NoPartialCacheResult ==
    (Terminal /\ op = "get_price_krw" /\ args[2] = "stock"
        /\ (ChainExhausted(args) \/ FxFailed)) =>
        LET k == <<"stock", args[1]>>
            fx == <<"usdkrw", NoSym>>
        IN  /\ IF {k, fx} \subseteq DOMAIN cache
               THEN /\ pc = "done"
                    /\ ret.val[1] = PriceResult(cache[k][2] * cache[fx][2], "cache",
                                                Some(cache[k][2]))
               ELSE /\ pc = "raised"
                    /\ ret.exc = OriginalError
            /\ \A key \in Written : \E call \in DOMAIN stub : StubOk(call) /\ KeyOf(call) = key

====
